---- MODULE Spec2Model ----
(***************************************************************************)
(* Model of main.py: a Telegram bot that relays text messages to the       *)
(* Moonshot chat-completion endpoint and replies with the answer.          *)
(*                                                                         *)
(* Python values are records [type, val]; a str is its sequence of text    *)
(* fragments (the empty sequence is the empty string), so that f-string    *)
(* interpolation is concatenation and "contains" is membership.            *)
(***************************************************************************)
EXTENDS Integers, Sequences, FiniteSets, TLC

VARIABLES
    TELEGRAM_BOT_TOKEN,  \* truthiness of os.getenv("TELEGRAM_BOT_TOKEN")
    MOONSHOT_API_KEY,    \* truthiness of os.getenv("MOONSHOT_API_KEY")
    mainState,           \* "init" | "failed" | "polling"
    queue,               \* updates fetched by run_polling, not yet dispatched
    fetched,             \* number of updates fetched so far
    handled,             \* number of updates whose handler has finished
    cur,                 \* the update of the running / last finished handler
    pc,                  \* "idle" | "http" (inside requests.post) | "send" (awaiting reply_text)
    callState,           \* call_kimi_k2 for cur: "none" | "running" | "returned" | "raised"
    outcome,             \* what requests.post produced for cur
    result,              \* the value call_kimi_k2 returned for cur
    httpCalls,           \* HTTP requests issued to the provider for cur
    replies,             \* arguments of the reply_text calls made for cur
    escaped,             \* an exception left the handler of cur
    log                  \* log records written while handling cur

vars == <<TELEGRAM_BOT_TOKEN, MOONSHOT_API_KEY, mainState, queue, fetched, handled,
          cur, pc, callState, outcome, result, httpCalls, replies, escaped, log>>

\* ---------------------------------------------------------------- bounds
MaxUpdates == 2
MaxQueue == 1

\* ---------------------------------------------------------------- values
Str(frags) == [type |-> "str", val |-> frags]
NoneVal == [type |-> "NoneType", val |-> <<>>]
IntVal == [type |-> "int", val |-> <<"42">>]

\* Python truthiness of a str-or-None value
Truthy(v) == v.type # "NoneType" /\ v.val # <<>>

IsNonEmptyStr(v) == v.type = "str" /\ v.val # <<>>

Contains(v, frag) == \E i \in 1..Len(v.val) : v.val[i] = frag

DigitChar == <<"0", "1", "2", "3", "4", "5", "6", "7", "8", "9">>

\* str() of a non-negative int, as f"{resp.status_code}" renders it
RECURSIVE Digits(_)
Digits(n) == IF n < 10 THEN <<DigitChar[n + 1]>>
             ELSE Digits(n \div 10) \o <<DigitChar[(n % 10) + 1]>>

\* ---------------------------------------------------------------- inputs
NoUpdate == [handler |-> "none", hasMsg |-> FALSE, text |-> NoneVal, uid |-> 0]

\* uid 0 stands for an absent effective_user
Updates ==
    {[handler |-> h, hasMsg |-> m, text |-> Str(<<"/cmd">>), uid |-> 7] :
        h \in {"start_command", "help_command"}, m \in BOOLEAN}
    \cup {[handler |-> "handle_message", hasMsg |-> FALSE, text |-> NoneVal, uid |-> 7]}
    \cup {[handler |-> "handle_message", hasMsg |-> TRUE, text |-> t, uid |-> u] :
        t \in {NoneVal, Str(<<>>), Str(<<"hi">>), Str(<<"kya haal">>)}, u \in {0, 7}}

Statuses == {200, 201, 304, 401, 403, 404, 429, 500}

Contents == {Str(<<"R">>), Str(<<"hi">>), Str(<<>>), NoneVal, IntVal}

\* response bodies: raw is resp.text, shape says how far data["choices"][0]["message"]["content"] gets
Bodies ==
    {[shape |-> s, content |-> NoneVal, raw |-> "<raw body>"] :
        s \in {"notjson", "nochoices", "emptychoices", "nocontent"}}
    \cup {[shape |-> "ok", content |-> c, raw |-> "<raw body>"] : c \in Contents}

NoBody == [shape |-> "notjson", content |-> NoneVal, raw |-> ""]

NoOutcome == [kind |-> "none", exc |-> "", status |-> 0, body |-> NoBody]

Outcomes ==
    {[kind |-> "transport", exc |-> e, status |-> 0, body |-> NoBody] :
        e \in {"ConnectionError: refused", "ReadTimeout: 30s"}}
    \cup {[kind |-> "response", exc |-> "", status |-> s, body |-> b] :
        s \in Statuses, b \in Bodies}

\* ---------------------------------------------------------------- call_kimi_k2
\* requests.Response.ok: raise_for_status() raises only for 400 <= status < 600
RespOk(status) == ~(400 <= status /\ status < 600)

\* the user-facing texts, without the emoji of the source
ConnectMsg ==
    Str(<<"Moonshot API se connect nahi ho pa raha. Internet ya API service check karo.">>)

AuthMsg(status) ==
    Str(<<"Moonshot API key ya billing me problem lag rahi hai ", "(HTTP ">>
        \o Digits(status)
        \o <<"). Dashboard me API key / billing check karo.">>)

RateLimitMsg ==
    Str(<<"Moonshot API limit cross ho gayi (429). ",
          "Thodi der baad try karo ya usage/billing badhao.">>)

HttpErrorMsg(status) ==
    Str(<<"Moonshot API se error aa gaya (HTTP ">>
        \o Digits(status)
        \o <<"). ", "Key, model name ya billing check karo.">>)

MalformedMsg == Str(<<"Moonshot se ajeeb response aaya. Thodi der baad try karo.">>)

BackendErrorMsg ==
    Str(<<"Backend me kuch error aa gaya\n", "Thodi der baad dobara try kar lena.">>)

StartText ==
    Str(<<"Namaste!\n\n", "Main Kimi K2 powered Telegram bot hoon.\n",
          "Jo bhi sawaal hai, yahan bhejo">>)

HelpText ==
    Str(<<"/start - bot shuru karo\n", "Bas message bhejo, main Kimi K2 se reply launga.">>)

LogRec(level, frags) == [level |-> level, text |-> frags]

\* the non-ok branch: log status and parsed body, pick the guidance by status
ErrorBranch(o) ==
    LET err_json == IF o.body.shape = "notjson" THEN "None" ELSE o.body.raw
        rec == LogRec("ERROR", <<"Moonshot API error: status=">> \o Digits(o.status)
                                \o <<", body=", err_json>>)
    IN  IF o.status \in {401, 403}
            THEN [value |-> AuthMsg(o.status), log |-> <<rec>>]
        ELSE IF o.status = 429
            THEN [value |-> RateLimitMsg, log |-> <<rec>>]
        ELSE [value |-> HttpErrorMsg(o.status), log |-> <<rec>>]

\* variant: the success branch rejects a content that is not a non-empty string
SuccessBranchValidated(o) ==
    IF o.body.shape = "ok" /\ IsNonEmptyStr(o.body.content)
        THEN [value |-> o.body.content, log |-> <<>>]
        ELSE [value |-> MalformedMsg,
              log |-> <<LogRec("ERROR", <<"Unexpected response from Moonshot: ", o.body.raw>>)>>]

\* the success branch: data["choices"][0]["message"]["content"], any exception caught
SuccessBranch(o) ==
    IF o.body.shape = "ok"
        THEN [value |-> o.body.content, log |-> <<>>]
        ELSE [value |-> MalformedMsg,
              log |-> <<LogRec("ERROR", <<"Unexpected response from Moonshot: ", o.body.raw>>)>>]

\* everything call_kimi_k2 does once requests.post has produced outcome o
MapOutcome(o) ==
    IF o.kind = "transport"
        THEN [value |-> ConnectMsg,
              log |-> <<LogRec("ERROR", <<"Moonshot API request fail hua: ", o.exc>>)>>]
    ELSE IF ~RespOk(o.status) THEN ErrorBranch(o)
    ELSE SuccessBranch(o)

\* call_kimi_k2 as a whole, given the outcome its single requests.post will have
call_kimi_k2(user_message, user_id, o) ==
    IF ~MOONSHOT_API_KEY
        THEN [raised |-> TRUE, value |-> NoneVal, log |-> <<>>, posts |-> 0]
        ELSE [raised |-> FALSE, value |-> MapOutcome(o).value,
              log |-> MapOutcome(o).log, posts |-> 1]

\* ---------------------------------------------------------------- handlers
\* variant: the guard tests the message only, not its text
NoTextGuardMessageOnly(u) == ~u.hasMsg

\* the guard of handle_message
NoTextGuard(u) == ~u.hasMsg \/ ~Truthy(u.text)

\* variant: the except branch leaves reply_text as it was
ReplyForUnchecked(r) == r.value

\* reply_text chosen by the try/except around call_kimi_k2
ReplyFor(r) == IF r.raised THEN BackendErrorMsg ELSE r.value

\* the event loop's thread is inside a synchronous call of a coroutine
LoopBlocked == pc = "http"

Init ==
    /\ TELEGRAM_BOT_TOKEN \in BOOLEAN
    /\ MOONSHOT_API_KEY \in BOOLEAN
    /\ mainState = "init"
    /\ queue = <<>>
    /\ fetched = 0
    /\ handled = 0
    /\ cur = NoUpdate
    /\ pc = "idle"
    /\ callState = "none"
    /\ outcome = NoOutcome
    /\ result = NoneVal
    /\ httpCalls = 0
    /\ replies = <<>>
    /\ escaped = FALSE
    /\ log = <<>>

\* main(): the token check, handler registration, run_polling
Main ==
    /\ mainState = "init"
    /\ mainState' = IF ~TELEGRAM_BOT_TOKEN THEN "failed" ELSE "polling"
    /\ UNCHANGED <<TELEGRAM_BOT_TOKEN, MOONSHOT_API_KEY, queue, fetched, handled, cur, pc,
                   callState, outcome, result, httpCalls, replies, escaped, log>>

\* run_polling's updater coroutine receives one more update; it runs on the
\* event loop, so it cannot run while a handler holds the thread
FetchUpdate ==
    /\ mainState = "polling"
    /\ ~LoopBlocked
    /\ fetched < MaxUpdates
    /\ Len(queue) < MaxQueue
    /\ \E u \in Updates : queue' = Append(queue, u)
    /\ fetched' = fetched + 1
    /\ UNCHANGED <<TELEGRAM_BOT_TOKEN, MOONSHOT_API_KEY, mainState, handled, cur, pc,
                   callState, outcome, result, httpCalls, replies, escaped, log>>

\* the state of a handler that starts on update u
Begin(u) ==
    /\ mainState = "polling"
    /\ pc = "idle"
    /\ queue # <<>>
    /\ u = Head(queue)
    /\ queue' = Tail(queue)
    /\ cur' = u
    /\ outcome' = NoOutcome
    /\ result' = NoneVal
    /\ UNCHANGED <<TELEGRAM_BOT_TOKEN, MOONSHOT_API_KEY, mainState, fetched>>

\* a command handler: reply with fixed text; update.message may be None
\* (an edited command), and then the attribute access raises
Command(name, text) ==
    \E u \in Updates :
        /\ u.handler = name
        /\ Begin(u)
        /\ callState' = "none"
        /\ httpCalls' = 0
        /\ log' = <<>>
        /\ IF u.hasMsg
              THEN /\ pc' = "send"
                   /\ replies' = <<text>>
                   /\ escaped' = FALSE
                   /\ handled' = handled
              ELSE /\ pc' = "idle"
                   /\ replies' = <<>>
                   /\ escaped' = TRUE
                   /\ handled' = handled + 1

start_command == Command("start_command", StartText)

help_command == Command("help_command", HelpText)

\* handle_message up to its first suspension: the guard, the info log, and
\* call_kimi_k2 up to the point where requests.post is entered
handle_message ==
    \E u \in Updates :
        /\ u.handler = "handle_message"
        /\ Begin(u)
        /\ escaped' = FALSE
        /\ IF NoTextGuard(u)
              THEN /\ pc' = "idle"
                   /\ callState' = "none"
                   /\ httpCalls' = 0
                   /\ replies' = <<>>
                   /\ log' = <<>>
                   /\ handled' = handled + 1
              ELSE LET r == call_kimi_k2(u.text, u.uid, NoOutcome)
                       info == LogRec("INFO", <<"User ", "uid", ": ">> \o u.text.val)
                   IN  IF r.raised
                          THEN /\ pc' = "send"
                               /\ callState' = "raised"
                               /\ httpCalls' = r.posts
                               /\ replies' = <<ReplyFor(r)>>
                               /\ log' = <<info, LogRec("ERROR", <<"Moonshot API error">>)>>
                               /\ handled' = handled
                          ELSE /\ pc' = "http"
                               /\ callState' = "running"
                               /\ httpCalls' = r.posts
                               /\ replies' = <<>>
                               /\ log' = <<info>>
                               /\ handled' = handled

\* variant: a failed request is attempted once more before it is mapped
HttpReturnRetry(o) ==
    /\ pc = "http"
    /\ IF (o.kind = "transport" \/ ~RespOk(o.status)) /\ httpCalls < 2
          THEN /\ httpCalls' = httpCalls + 1
               /\ UNCHANGED <<pc, outcome, result, callState, log, replies>>
          ELSE LET r == call_kimi_k2(cur.text, cur.uid, o)
               IN  /\ outcome' = o
                   /\ result' = r.value
                   /\ callState' = IF r.raised THEN "raised" ELSE "returned"
                   /\ log' = log \o r.log
                   /\ replies' = Append(replies, ReplyFor(r))
                   /\ pc' = "send"
                   /\ UNCHANGED httpCalls
    /\ UNCHANGED <<TELEGRAM_BOT_TOKEN, MOONSHOT_API_KEY, mainState, queue, fetched, handled,
                   cur, escaped>>

\* requests.post returns or raises with outcome o; call_kimi_k2 maps it and
\* returns, and handle_message calls reply_text with the value
HttpReturn(o) ==
    /\ pc = "http"
    /\ LET r == call_kimi_k2(cur.text, cur.uid, o)
       IN  /\ outcome' = o
           /\ result' = r.value
           /\ callState' = IF r.raised THEN "raised" ELSE "returned"
           /\ log' = log \o r.log
           /\ replies' = Append(replies, ReplyFor(r))
    /\ pc' = "send"
    /\ UNCHANGED <<TELEGRAM_BOT_TOKEN, MOONSHOT_API_KEY, mainState, queue, fetched, handled,
                   cur, httpCalls, escaped>>

\* the awaited reply_text finishes; the Bot API refuses a text that is not a
\* non-empty string, and any send may fail on the network.  The exception
\* leaves the handler; the dispatcher logs it and goes on.
ReplyDone(ok) ==
    /\ pc = "send"
    /\ ok => IsNonEmptyStr(replies[Len(replies)])
    /\ escaped' = ~ok
    /\ pc' = "idle"
    /\ handled' = handled + 1
    /\ UNCHANGED <<TELEGRAM_BOT_TOKEN, MOONSHOT_API_KEY, mainState, queue, fetched, cur,
                   callState, outcome, result, httpCalls, replies, log>>

Next ==
    \/ Main
    \/ FetchUpdate
    \/ start_command
    \/ help_command
    \/ handle_message
    \/ \E o \in Outcomes : HttpReturn(o)
    \/ \E ok \in BOOLEAN : ReplyDone(ok)

Spec == Init /\ [][Next]_vars

TypeOK ==
    /\ mainState \in {"init", "failed", "polling"}
    /\ pc \in {"idle", "http", "send"}
    /\ callState \in {"none", "running", "returned", "raised"}
    /\ cur \in Updates \cup {NoUpdate}
    /\ outcome \in Outcomes \cup {NoOutcome}
    /\ Len(queue) <= MaxQueue
    /\ fetched <= MaxUpdates
    /\ handled <= fetched

\* ---------------------------------------------------------------- claims
TextUpdate(u) == u.handler = "handle_message" /\ u.hasMsg /\ IsNonEmptyStr(u.text)

Success2xx(o) ==
    o.kind = "response" /\ 200 <= o.status /\ o.status <= 299 /\ o.body.shape = "ok"

\* C1: call_kimi_k2 never raises to its caller, whether the provider key is
\* set or unset and whatever the HTTP call's outcome.
C1_NeverRaises == callState # "raised"

\* C2: with TELEGRAM_BOT_TOKEN or MOONSHOT_API_KEY unset, main fails before
\* polling, so no update is ever processed: no handler runs, no reply is sent.
C2_NoUpdateWithoutBothVars ==
    (~TELEGRAM_BOT_TOKEN \/ ~MOONSHOT_API_KEY)
        => (handled = 0 /\ cur = NoUpdate /\ replies = <<>>)

\* C3: while the HTTP call of one handle_message is in flight, the dispatch
\* loop can still receive a further update (when one is available and there
\* is room for it).
C3_ReceiveDuringCall ==
    (pc = "http" /\ fetched < MaxUpdates /\ Len(queue) < MaxQueue) => ENABLED FetchUpdate

\* C4: whichever step of handling a message fails (provider call, reply
\* extraction, sending the reply), no exception escapes handle_message.
C4_NoEscape == cur.handler = "handle_message" => ~escaped

\* C5: for non-empty user text, whatever call_kimi_k2 returns is a non-empty
\* string, also when it is the provider's choices[0].message.content.
C5_NonEmptyReturn == callState = "returned" => IsNonEmptyStr(result)

\* C6: for non-empty input text, a 2xx answer whose choices[0].message.content
\* is R makes call_kimi_k2 return exactly R, whatever the text and sender id.
C6_SuccessVerbatim ==
    (TextUpdate(cur) /\ callState = "returned" /\ Success2xx(outcome))
        => result = outcome.body.content

C6_Witness ==
    /\ TextUpdate(cur) /\ cur.uid = 0 /\ cur.text = Str(<<"kya haal">>)
    /\ callState = "returned" /\ Success2xx(outcome)
    /\ outcome.status = 201
    /\ result = Str(<<"R">>)

\* the guidance strings of the failure classes
GuidanceOf(o) ==
    IF o.kind = "transport" THEN ConnectMsg
    ELSE IF o.status \in {401, 403} THEN AuthMsg(o.status)
    ELSE IF o.status = 429 THEN RateLimitMsg
    ELSE IF ~(200 <= o.status /\ o.status <= 299) THEN HttpErrorMsg(o.status)
    ELSE MalformedMsg

FailureClass(o) ==
    IF o.kind = "transport" THEN "transport"
    ELSE IF o.status \in {401, 403} THEN "auth"
    ELSE IF o.status = 429 THEN "ratelimit"
    ELSE IF ~(200 <= o.status /\ o.status <= 299) THEN "http"
    ELSE "malformed"

Failed(o) == o.kind = "transport" \/ (o.kind = "response" /\ ~Success2xx(o))

\* C7: every failed call is mapped to the guidance string of its class
\* (transport; 401/403; 429; any other non-2xx; 2xx lacking the content
\* field), strings of different classes differ, and none contains the
\* response body or the exception text.
C7_FailureClasses ==
    /\ (callState = "returned" /\ Failed(outcome))
          => /\ result = GuidanceOf(outcome)
             /\ ~Contains(result, outcome.body.raw)
             /\ ~Contains(result, outcome.exc)
    /\ \A o1, o2 \in {o \in Outcomes : Failed(o)} :
          FailureClass(o1) # FailureClass(o2) => GuidanceOf(o1) # GuidanceOf(o2)

\* the part of C7 that the code keeps: outcomes that are transport failures,
\* 4xx/5xx statuses, or 2xx bodies without the content field
C7_ErrorStatusClasses ==
    (callState = "returned" /\ Failed(outcome)
        /\ (outcome.kind = "transport" \/ outcome.status \notin 300..399))
        => /\ result = GuidanceOf(outcome)
           /\ ~Contains(result, outcome.body.raw)
           /\ ~Contains(result, outcome.exc)

\* C8: at most one HTTP request is issued per inbound message, also after a
\* failure, and the start and help commands issue none.
C8_AtMostOnePost ==
    /\ httpCalls <= 1
    /\ cur.handler \in {"start_command", "help_command"} => httpCalls = 0
    /\ (callState = "returned" /\ Failed(outcome)) => (httpCalls = 1 /\ pc # "http")

C8_Witness ==
    /\ pc = "idle" /\ TextUpdate(cur) /\ callState = "returned"
    /\ outcome.kind = "transport" /\ httpCalls = 1 /\ handled = 2

\* C9: handle_message on an update without message, or with absent or empty
\* text, returns without an HTTP call and without a reply.
C9_NoTextNoCallNoReply ==
    (cur.handler = "handle_message"
        /\ (~cur.hasMsg \/ cur.text = NoneVal \/ cur.text = Str(<<>>)))
        => (httpCalls = 0 /\ replies = <<>> /\ pc = "idle" /\ callState = "none")

C9_Witness ==
    /\ cur.handler = "handle_message" /\ cur.hasMsg /\ cur.text = Str(<<>>)
    /\ handled = 1 /\ pc = "idle" /\ replies = <<>>

\* C10: for an update with non-empty text, handle_message attempts exactly
\* one reply, after call_kimi_k2 has returned or raised; the reply is the
\* returned value, or the fixed backend-error apology when it raised.
C10_ExactlyOneReply ==
    TextUpdate(cur) =>
        /\ Len(replies) <= 1
        /\ callState = "running" <=> pc = "http"
        /\ pc = "http" => replies = <<>>
        /\ pc # "http" => (Len(replies) = 1 /\ callState \in {"returned", "raised"})
        /\ callState = "raised" => replies = <<BackendErrorMsg>>
        /\ callState = "returned" => replies = <<result>>

C10_Witness ==
    /\ TextUpdate(cur) /\ pc = "idle" /\ callState = "raised"
    /\ replies = <<BackendErrorMsg>> /\ httpCalls = 0

====
